---- MODULE Spec2Model ----
(***************************************************************************)
(* A model of ukpn_constraints/monitoring/monitor_constraints.py: the poll *)
(* loop of main, the series list kept by update_graph and the CSV file     *)
(* kept by save_data_into_csv.                                             *)
(*                                                                         *)
(* A DataFrame is a sequence of rows (records), a matplotlib line is a     *)
(* record [label, x, y], the list `lines` is a sequence of such records    *)
(* and the CSV file is either absent or a record holding its rows.         *)
(* Floats are exact rationals with the IEEE specials (nan, inf, -inf).     *)
(* A constraint description is a sequence of symbols, so that the slice    *)
(* constraint[:50] is computed, not assumed.                               *)
(***************************************************************************)
EXTENDS Integers, Sequences, FiniteSets, TLC

VARIABLES
    api_key,                  \* ODP_API_KEY, os.getenv("ODP_API_KEY")
    pc,                       \* position of main (or "crashed" / "done")
    df,                       \* the DataFrame of the current cycle
    lines,                    \* main's list of plotted lines
    csv,                      \* the file at MONITORING_CSV_PATH
    num_constraints_to_plot,  \* config.NUMBER_OF_CONSTRAINTS_TO_PLOT
    max_plot_history,         \* config.MAX_PLOT_HISTORY
    waited,                   \* seconds of the last time.sleep
    calls,                    \* number of cycles started (bounds the run)
    ev,                       \* what the last step did (observation only)
    track                     \* per label: the points a window should hold (observation only)

vars == <<api_key, pc, df, lines, csv, num_constraints_to_plot, max_plot_history,
          waited, calls, ev, track>>

---------------------------------------------------------------------------
(* Bounds of the model. *)

MaxRows == 2
MaxTime == 3
MaxK == 2
MaxH == 2
MaxCalls == 3

(* Program constants. *)

LabelLen == 50
SleepInterval == 30
RetryInterval == 30

---------------------------------------------------------------------------
(* Small helpers. *)

Min(a, b) == IF a < b THEN a ELSE b

Abs(a) == IF a < 0 THEN -a ELSE a

RECURSIVE Gcd(_, _)
Gcd(a, b) == IF b = 0 THEN a ELSE Gcd(b, a % b)

Range(s) == {s[i] : i \in 1..Len(s)}

---------------------------------------------------------------------------
(* Floats: the value of present_amps_value / trim_amps as pandas/numpy     *)
(* computes it: a finite quotient, or inf / -inf / nan on a zero or        *)
(* missing divisor.                                                        *)

NaN == [cls |-> "nan", n |-> 0, d |-> 1]
PosInf == [cls |-> "inf", n |-> 1, d |-> 0]
NegInf == [cls |-> "-inf", n |-> -1, d |-> 0]

Fin(n, d) ==
    LET g == Gcd(Abs(n), Abs(d))
        s == IF d < 0 THEN -1 ELSE 1
    IN [cls |-> "fin", n |-> (s * n) \div g, d |-> (s * d) \div g]

One == Fin(1, 1)

\* a > b as floats; every comparison with nan is false.
FloatGt(a, b) ==
    /\ a.cls # "nan" /\ b.cls # "nan"
    /\ a # b
    /\ \/ a.cls = "inf"
       \/ b.cls = "-inf"
       \/ a.cls = "fin" /\ b.cls = "fin" /\ a.n * b.d > b.n * a.d

---------------------------------------------------------------------------
(* Constraint descriptions. The label of a line is constraint[:50].        *)

Pad(n, c) == [i \in 1..n |-> c]

DescA == <<"A">>
DescB == <<"B">>
DescC == <<"C">>
\* two descriptions of 51 symbols that agree on their first 50
DescLong1 == Pad(LabelLen, "x") \o <<"1">>
DescLong2 == Pad(LabelLen, "x") \o <<"2">>
\* the description update_graph gives its synthetic row
AllowableDesc == <<"Allowable utilisation">>

\* constraint[:50]
Label(constraint) == SubSeq(constraint, 1, Min(LabelLen, Len(constraint)))

---------------------------------------------------------------------------
(* Python list slicing and pandas selection.                               *)

\* x[-n:] for n >= 0 (x[-0:] is the whole list)
LastN(x, n) ==
    IF n = 0 \/ Len(x) <= n THEN x ELSE SubSeq(x, Len(x) - n + 1, Len(x))

\* a slip: one row too many
Head_n_one_more(rows, n) == SubSeq(rows, 1, Min(n + 1, Len(rows)))

\* df.head(n)
Head_n(rows, n) == SubSeq(rows, 1, Min(n, Len(rows)))

\* df[df['constraint_description'] == constraint]
Subset(rows, constraint) ==
    SelectSeq(rows, LAMBDA r : r.constraint_description = constraint)

Column(rows, c) == [i \in 1..Len(rows) |-> rows[i][c]]

RECURSIVE UniqueFrom(_, _)
UniqueFrom(s, acc) ==
    IF s = <<>> THEN acc
    ELSE UniqueFrom(Tail(s), IF Head(s) \in Range(acc) THEN acc ELSE Append(acc, Head(s)))

\* Series.unique(): the distinct values in order of first appearance
Unique(s) == UniqueFrom(s, <<>>)

---------------------------------------------------------------------------
(* df.sort_values('utilisation', ascending=False), lines 62-64.            *)
(* The default kind is quicksort, which pandas documents as not stable:    *)
(* the result is any arrangement of the rows that is descending in         *)
(* utilisation with the nan rows last (na_position='last'); the order      *)
(* among rows of equal utilisation is the sort's choice.                   *)

\* row a must come before row b
RanksBefore(a, b) ==
    \/ a.utilisation # NaN /\ b.utilisation = NaN
    \/ FloatGt(a.utilisation, b.utilisation)

Perms(n) ==
    {p \in [1..n -> 1..n] : \A i, j \in 1..n : p[i] = p[j] => i = j}

Arrange(rows, p) == [i \in 1..Len(rows) |-> rows[p[i]]]

IsDescending(rows) ==
    \A i, j \in 1..Len(rows) : i < j => ~RanksBefore(rows[j], rows[i])

\* what a stable sort (kind='stable') returns: ties in the input's order
StableOrder(rows) ==
    CHOOSE s \in {Arrange(rows, p) : p \in
                    {q \in Perms(Len(rows)) :
                        \A i, j \in 1..Len(rows) : i < j =>
                            \/ RanksBefore(rows[q[i]], rows[q[j]])
                            \/ ~RanksBefore(rows[q[j]], rows[q[i]]) /\ q[i] < q[j]}} : TRUE

\* a slip: ascending=False left out
sort_values_ascending(rows) ==
    {s \in {Arrange(rows, p) : p \in Perms(Len(rows))} :
        \A i, j \in 1..Len(rows) : i < j => ~RanksBefore(s[i], s[j])}

sort_values(rows) ==
    {s \in {Arrange(rows, p) : p \in Perms(Len(rows))} : IsDescending(s)}

---------------------------------------------------------------------------
(* update_graph, lines 46-139.                                             *)

\* df = df[usecols], lines 60-61
UseCols(rows) ==
    [i \in 1..Len(rows) |->
        [timestamp |-> rows[i].timestamp,
         constraint_description |-> rows[i].constraint_description,
         utilisation |-> rows[i].utilisation]]

\* new_row_dict, line 70
new_row_dict(current_timestamp) ==
    [timestamp |-> current_timestamp,
     constraint_description |-> AllowableDesc,
     utilisation |-> One]

\* lines 66-71 on a sorted, non-empty frame: head, iloc[0], concat
RankedRows(sorted, num) ==
    LET top == Head_n(sorted, num)
    IN <<new_row_dict(top[1].timestamp)>> \o top

\* line 73
Constraints(rows) == Unique(Column(rows, "constraint_description"))

\* plt.plot(x, y, ..., label=constraint_label)[0]
Line2D(label, x, y) == [label |-> label, x |-> x, y |-> y]

\* lines 77-90: the first draw appends one line per distinct description
FirstDraw(rows) ==
    LET constraints == Constraints(rows)
    IN [i \in 1..Len(constraints) |->
          LET subset == Subset(rows, constraints[i])
          IN Line2D(Label(constraints[i]),
                    Column(subset, "timestamp"), Column(subset, "utilisation"))]

\* line 98: {line.get_label(): line for line in lines[1:]}; a later line
\* replaces an earlier one of the same label. The empty sequence stands
\* for "label not in the dict".
constraints_plotted_dict(old, label) ==
    LET at == {j \in 2..Len(old) : old[j].label = label}
    IN IF at = {} THEN <<>>
       ELSE <<old[CHOOSE j \in at : \A k \in at : k <= j]>>

\* lines 101-124: the data of the line drawn for constraints[i] (1-based)
NewLine(i, constraints, rows, old, cur, max_history) ==
    LET constraint == constraints[i]
        subset == Subset(rows, constraint)
        x_new == Column(subset, "timestamp")
        y_new == Column(subset, "utilisation")
        plotted == constraints_plotted_dict(old, Label(constraint))
        x == IF i = 1 THEN cur[1].x \o <<rows[1].timestamp>>
             ELSE IF plotted # <<>> THEN plotted[1].x \o x_new ELSE x_new
        y == IF i = 1 THEN cur[1].y \o <<One>>
             ELSE IF plotted # <<>> THEN plotted[1].y \o y_new ELSE y_new
    IN Line2D(Label(constraint), LastN(x, max_history), LastN(y, max_history))

\* lines 100-129: the loop over the constraints; lines[i].remove() raises
\* IndexError when the list has no position i, and the list keeps what
\* the earlier turns of the loop assigned.
RECURSIVE Redraw(_, _, _, _, _, _)
Redraw(i, constraints, rows, old, cur, max_history) ==
    IF i > Len(constraints) THEN [lines |-> cur, raised |-> FALSE]
    ELSE IF i > Len(cur) THEN [lines |-> cur, raised |-> TRUE]
    ELSE Redraw(i + 1, constraints, rows, old,
                [cur EXCEPT ![i] = NewLine(i, constraints, rows, old, cur, max_history)],
                max_history)

\* line 99: current_timestamp not in lines[0].get_xdata()
AlreadyPlotted(current_timestamp, old) == current_timestamp \in Range(old[1].x)

\* the body of update_graph after the sort, lines 66-139: the list it
\* leaves, whether it raised, the branch it took and the ranked rows
Draw(sorted, old, num, max_history) ==
    LET rows == RankedRows(sorted, num)
        res == IF old = <<>>
               THEN [lines |-> FirstDraw(rows), raised |-> FALSE, branch |-> "first"]
               ELSE IF AlreadyPlotted(rows[1].timestamp, old)
                    THEN [lines |-> old, raised |-> FALSE, branch |-> "skip"]
                    ELSE LET r == Redraw(1, Constraints(rows), rows, old, old, max_history)
                         IN [lines |-> r.lines, raised |-> r.raised, branch |-> "redraw"]
    IN [lines |-> res.lines, raised |-> res.raised, branch |-> res.branch, rows |-> rows]

\* update_graph(df, lines, num_constraints_to_plot, max_plot_history): the
\* outcomes it can have, one per order the sort may return. On an empty
\* frame df['timestamp'].iloc[0] (line 68) raises IndexError (df[usecols],
\* line 61, raises KeyError first when the frame has no columns either);
\* the list passed in has not been touched by then.
update_graph(frame, old, num, max_history) ==
    IF frame = <<>>
    THEN {[lines |-> old, raised |-> TRUE, branch |-> "empty", rows |-> <<>>]}
    ELSE {Draw(sorted, old, num, max_history) : sorted \in sort_values(UseCols(frame))}

---------------------------------------------------------------------------
(* The frames of a cycle.                                                  *)
(* A raw row is a row of the DataFrame built at line 221: a timestamp      *)
(* [minute, second], a description, two numbers (nan when the JSON value   *)
(* is null) and der_name, which stands for the columns that are carried    *)
(* along untouched (constraint_id, release_limit_amps, breach_flag,        *)
(* der_name).                                                              *)

Str(s) == [cls |-> "str", s |-> s]
PyNone == [cls |-> "None"]

Num(n) == Fin(n, 1)

\* Series / Series, elementwise
Divide(a, b) ==
    IF a = NaN \/ b = NaN THEN NaN
    ELSE IF b.n = 0
         THEN (IF a.n > 0 THEN PosInf ELSE IF a.n < 0 THEN NegInf ELSE NaN)
         ELSE Fin(a.n * b.d, a.d * b.n)

\* lines 179-183 on one row: fillna(0), the timestamp cut to the minute
\* ('%Y-%m-%d %H:%M'), the utilisation column
CleanRow(r) ==
    LET present == IF r.present_amps_value = NaN THEN Num(0) ELSE r.present_amps_value
    IN [timestamp |-> r.timestamp.minute,
        constraint_description |-> r.constraint_description,
        present_amps_value |-> present,
        trim_amps |-> r.trim_amps,
        der_name |-> r.der_name,
        utilisation |-> Divide(present, r.trim_amps)]

\* clean_data_and_add_utilisation(df), lines 173-184
clean_data_and_add_utilisation(frame) == [i \in 1..Len(frame) |-> CleanRow(frame[i])]

Readings(descs, presents, trims, ders) ==
    [constraint_description : descs, present_amps_value : presents,
     trim_amps : trims, der_name : ders]

Stamp(reading, t) ==
    [timestamp |-> t,
     constraint_description |-> reading.constraint_description,
     present_amps_value |-> reading.present_amps_value,
     trim_amps |-> reading.trim_amps,
     der_name |-> reading.der_name]

SeqsUpTo(S, n) == UNION {[1..k -> S] : k \in 0..n}

\* the non-empty and empty frames of at most n readings that share one
\* poll timestamp
Snapshots(readings, n, times) ==
    {[i \in 1..Len(q) |-> Stamp(q[i], t)] : q \in SeqsUpTo(readings, n), t \in times}

Times == [minute : 1..MaxTime, second : {0, 30}]

---------------------------------------------------------------------------
(* update_graph called again and again with the frames a cycle can hand    *)
(* it.                                                                     *)

NoFile == [exists |-> FALSE, header |-> FALSE, rows |-> <<>>]

\* os.getenv("ODP_API_KEY"): unset (None), set to "", or set to a key
NoKey == [set |-> FALSE, value |-> ""]
EmptyKey == [set |-> TRUE, value |-> ""]
SomeKey == [set |-> TRUE, value |-> "key"]

GraphDescs == {DescA, DescLong1, DescLong2, AllowableDesc}

GraphReadings ==
    Readings(GraphDescs, {Num(1), Num(2)}, {Num(2)}, {Str("der")})

GraphFrames ==
    {clean_data_and_add_utilisation(raw) :
        raw \in Snapshots(GraphReadings, MaxRows, Times) \ {<<>>}}

\* Observation of the windows (used to state the window claims, not read
\* by the program): for each label that had exactly one ranked row in
\* every call so far, the points of its last max_plot_history calls, and
\* whether the calls so far carried pairwise distinct timestamps; and the
\* number of save_data_into_csv calls that met a read or write error.
NoTrack == [seen |-> {}, distinct |-> TRUE, win |-> <<>>, failures |-> 0]

KeyRows(rows, key) ==
    SelectSeq(rows, LAMBDA r : Label(r.constraint_description) = key)

SingleKeys(rows) ==
    {k \in {Label(rows[i].constraint_description) : i \in 1..Len(rows)} :
        Len(KeyRows(rows, k)) = 1}

Point(r) == [t |-> r.timestamp, u |-> r.utilisation]

Track(tr, first, rows, max_history) ==
    LET stamp == rows[1].timestamp
        keys == IF first THEN SingleKeys(rows) ELSE SingleKeys(rows) \cap DOMAIN tr.win
    IN [seen |-> tr.seen \cup {stamp},
        distinct |-> tr.distinct /\ stamp \notin tr.seen,
        win |-> [k \in keys |->
                    LastN((IF first THEN <<>> ELSE tr.win[k])
                            \o <<Point(KeyRows(rows, k)[1])>>, max_history)],
        failures |-> tr.failures]

InitGraph ==
    /\ pc = "graph"
    /\ df = <<>>
    /\ lines = <<>>
    /\ csv = NoFile
    /\ num_constraints_to_plot \in 1..MaxK
    /\ max_plot_history \in 1..MaxH
    /\ waited = 0
    /\ calls = 0
    /\ ev = [op |-> "init"]
    /\ track = NoTrack
    /\ api_key = SomeKey

\* what a call of update_graph did: its branch, whether it raised, the
\* reference row it built and the descriptions it looped over
Event(out) ==
    [op |-> "update_graph", branch |-> out.branch, raised |-> out.raised,
     ref |-> Head_n(out.rows, 1), constraints |-> Constraints(out.rows),
     stamps |-> {out.rows[i].timestamp : i \in 2..Len(out.rows)}]

\* line 269: lines = update_graph(df, lines, ...); an exception it raises
\* is caught nowhere in main and ends the process
CallUpdateGraph(frame, returned) ==
    \E out \in update_graph(frame, lines, num_constraints_to_plot, max_plot_history) :
        /\ lines' = out.lines
        /\ pc' = IF out.raised THEN "crashed" ELSE returned
        /\ ev' = Event(out)
        /\ track' = IF out.rows = <<>> THEN track
                    ELSE Track(track, calls = 0, out.rows, max_plot_history)

GraphCall ==
    /\ pc = "graph"
    /\ calls < MaxCalls
    /\ calls' = calls + 1
    /\ \E frame \in GraphFrames \cup {<<>>} : CallUpdateGraph(frame, "graph")
    /\ UNCHANGED <<api_key, df, csv, num_constraints_to_plot, max_plot_history, waited>>

NextGraph == GraphCall

SpecGraph == InitGraph /\ [][NextGraph]_vars

---------------------------------------------------------------------------
(* Claims about the series list, checked under SpecGraph.                  *)

Points(line) == [i \in 1..Len(line.x) |-> [t |-> line.x[i], u |-> line.y[i]]]

Called == ev.op = "update_graph" /\ ev.ref # <<>>

\* C1: a call of update_graph whose snapshot carries the timestamp of the
\* call before it (which returned) leaves the list of lines as it was
\* (same lines, same points, same order), and no line ever holds the
\* timestamp of one cycle twice.
C1_IdempotentRepoll ==
    [][/\ (/\ Called /\ ~ev.raised
           /\ calls' = calls + 1
           /\ ev'.op = "update_graph" /\ ev'.ref # <<>>
           /\ ev'.ref[1].timestamp = ev.ref[1].timestamp)
          => (lines' = lines /\ ev'.branch = "skip" /\ ~ev'.raised)
       /\ \A j \in 1..Len(lines') :
             \A a, b \in 1..Len(lines'[j].x) :
                a # b => lines'[j].x[a] # lines'[j].x[b]]_vars

\* C2: after more than max_plot_history calls with pairwise distinct
\* timestamps, a key that had one ranked row in every call has a line
\* holding exactly the points of its last max_plot_history calls, oldest
\* first.
C2_WindowHoldsLastCycles ==
    (pc = "graph" /\ Called /\ track.distinct /\ calls > max_plot_history)
    => \A k \in DOMAIN track.win :
          \E j \in 1..Len(lines) :
             lines[j].label = k /\ Points(lines[j]) = track.win[k]

\* C3: every line of the list, the reference line included, holds at most
\* max_plot_history points.
C3_WindowSize ==
    \A j \in 1..Len(lines) : Len(lines[j].x) <= max_plot_history

\* C7: the first ranked row of a call is the synthetic row 'Allowable
\* utilisation' with utilisation 1 and the snapshot's shared timestamp,
\* and every point of the reference line (lines[0]) has utilisation 1.
C7_ReferenceRow ==
    /\ Called => /\ ev.ref[1].constraint_description = AllowableDesc
                 /\ ev.ref[1].utilisation = One
                 /\ ev.stamps = {ev.ref[1].timestamp}
    /\ lines # <<>> => \A i \in 1..Len(lines[1].y) : lines[1].y[i] = One

---------------------------------------------------------------------------
(* One call of update_graph on an empty list: the ranking and the first    *)
(* draw, with the ranked rows kept for inspection.                         *)

OnceRows == 3

\* the readings of the worked example: A 50/100, B 90/100, C missing/50
ExampleReadings ==
    {[constraint_description |-> d, present_amps_value |-> v[1],
      trim_amps |-> v[2], der_name |-> Str("der")] :
        d \in {DescA, DescB, DescC},
        v \in {<<Num(50), Num(100)>>, <<Num(90), Num(100)>>, <<NaN, Num(50)>>}}

OnceFrames ==
    GraphFrames \cup
    {clean_data_and_add_utilisation(raw) :
        raw \in Snapshots(ExampleReadings, OnceRows, {[minute |-> 1, second |-> 0]}) \ {<<>>}}

InitOnce ==
    /\ pc = "once"
    /\ df \in OnceFrames
    /\ lines = <<>>
    /\ csv = NoFile
    /\ num_constraints_to_plot \in 1..MaxK
    /\ max_plot_history \in 1..MaxH
    /\ waited = 0
    /\ calls = 0
    /\ ev = [op |-> "init"]
    /\ track = NoTrack
    /\ api_key = SomeKey

FirstCall ==
    /\ pc = "once"
    /\ \E out \in update_graph(df, lines, num_constraints_to_plot, max_plot_history) :
          /\ lines' = out.lines
          /\ pc' = IF out.raised THEN "crashed" ELSE "drawn"
          /\ ev' = [op |-> "update_graph", branch |-> out.branch,
                    raised |-> out.raised, rows |-> out.rows]
    /\ calls' = calls + 1
    /\ UNCHANGED <<api_key, df, csv, num_constraints_to_plot, max_plot_history, waited, track>>

NextOnce == FirstCall

SpecOnce == InitOnce /\ [][NextOnce]_vars

---------------------------------------------------------------------------
(* Claims about one call, checked under SpecOnce.                          *)

Descriptions(rows) == {rows[i].constraint_description : i \in 1..Len(rows)}

Keys(rows) == {Label(d) : d \in Descriptions(rows)}

\* C4: the first call creates exactly one line per distinct key
\* (description cut to 50 symbols) of the ranked rows, each of one point.
C4_OneLinePerKey ==
    pc = "drawn" =>
        /\ Len(lines) = Cardinality(Keys(ev.rows))
        /\ {lines[j].label : j \in 1..Len(lines)} = Keys(ev.rows)
        /\ \A j \in 1..Len(lines) : Len(lines[j].x) = 1

\* C5: the ranked rows of a non-empty snapshot number exactly
\* min(K, len(snapshot)) + 1, hence never more than K + 1.
C5_TopKCardinality ==
    pc = "drawn" =>
        /\ Len(ev.rows) = Min(num_constraints_to_plot, Len(df)) + 1
        /\ Len(ev.rows) <= num_constraints_to_plot + 1

\* a snapshot with more rows than K was cut to K
C5_Witness ==
    /\ pc = "drawn"
    /\ Len(df) = 3
    /\ num_constraints_to_plot = 2
    /\ Len(ev.rows) = 3

ExampleFrame ==
    clean_data_and_add_utilisation(
        <<[timestamp |-> [minute |-> 1, second |-> 0], constraint_description |-> DescA,
           present_amps_value |-> Num(50), trim_amps |-> Num(100), der_name |-> Str("der")],
          [timestamp |-> [minute |-> 1, second |-> 0], constraint_description |-> DescB,
           present_amps_value |-> Num(90), trim_amps |-> Num(100), der_name |-> Str("der")],
          [timestamp |-> [minute |-> 1, second |-> 0], constraint_description |-> DescC,
           present_amps_value |-> NaN, trim_amps |-> Num(50), der_name |-> Str("der")]>>)

ExampleRanked ==
    <<[timestamp |-> 1, constraint_description |-> AllowableDesc, utilisation |-> One],
      [timestamp |-> 1, constraint_description |-> DescB, utilisation |-> Fin(9, 10)],
      [timestamp |-> 1, constraint_description |-> DescA, utilisation |-> Fin(1, 2)]>>

\* C6 as stated: the data rows are the first K rows of the snapshot sorted
\* by descending utilisation with equal utilisations in snapshot order.
C6_StableTopK ==
    pc = "drawn" =>
        Tail(ev.rows) = Head_n(StableOrder(UseCols(df)), num_constraints_to_plot)

NoTies(rows) ==
    \A i, j \in 1..Len(rows) :
        i # j => RanksBefore(rows[i], rows[j]) \/ RanksBefore(rows[j], rows[i])

\* C6, amended: the data rows are K records of highest utilisation in
\* descending order (no left-out record ranks before a selected one); the
\* order among records of equal utilisation, and which of them fill the
\* last places, is not determined. With no two equal utilisations the
\* output is the stable top-K; the example A=0.5, B=0.9, C=0 with K=2
\* yields [reference, B, A].
C6_TopKDescending ==
    pc = "drawn" =>
        LET data == Tail(ev.rows)
            all == UseCols(df)
        IN /\ Len(data) = Min(num_constraints_to_plot, Len(all))
           /\ \A i, j \in 1..Len(data) : i < j => ~RanksBefore(data[j], data[i])
           /\ \E p \in Perms(Len(all)) :
                 /\ \A i \in 1..Len(data) : data[i] = all[p[i]]
                 /\ \A i \in 1..Len(data), e \in (Len(data) + 1)..Len(all) :
                       ~RanksBefore(all[p[e]], data[i])
           /\ NoTies(all) => data = Head_n(StableOrder(all), num_constraints_to_plot)
           /\ (df = ExampleFrame /\ num_constraints_to_plot = 2) => ev.rows = ExampleRanked

\* the worked example was ranked
C6_Witness ==
    /\ pc = "drawn"
    /\ df = ExampleFrame
    /\ num_constraints_to_plot = 2
    /\ ev.rows = ExampleRanked

---------------------------------------------------------------------------
(* save_data_into_csv, lines 141-171, and the file it keeps.               *)
(* The file is absent, or holds a header (or not even that, after a write  *)
(* that failed at once) and rows. A row of the file is the row as read_csv *)
(* gives it back: to_csv writes a missing value (None or nan) as an empty  *)
(* field and read_csv reads an empty field as nan.                         *)

\* one row through to_csv and read_csv
CsvRoundTrip(r) ==
    [r EXCEPT !.der_name = IF @ = PyNone THEN NaN ELSE @]

\* duplicated() takes missing values as equal to each other
SameRow(a, b) == CsvRoundTrip(a) = CsvRoundTrip(b)

\* df.drop_duplicates(inplace=True): the first of equal rows is kept
drop_duplicates(rows) ==
    SelectSeq([i \in 1..Len(rows) |-> [k |-> i, r |-> rows[i]]],
              LAMBDA e : \A j \in 1..(e.k - 1) : ~SameRow(rows[j], e.r))

Unwrap(entries) == [i \in 1..Len(entries) |-> entries[i].r]

\* df.to_csv(path, mode="w", header=True, index=False) that completes
Written(rows) ==
    [exists |-> TRUE, header |-> TRUE,
     rows |-> [i \in 1..Len(rows) |-> CsvRoundTrip(rows[i])]]

\* df.to_csv(path, mode="w", ...) that raises: the file is untouched when
\* it could not be opened; once opened for writing it is truncated and
\* holds what was written before the error (nothing, the header, or the
\* header and the first rows)
FailedWrite(rows, file) ==
    {file, [exists |-> TRUE, header |-> FALSE, rows |-> <<>>]}
    \cup {[exists |-> TRUE, header |-> TRUE,
           rows |-> [i \in 1..k |-> CsvRoundTrip(rows[i])]] : k \in 0..(Len(rows) - 1)}

\* lines 152-158: the file does not exist
CreateCsv(frame, file) ==
    {[csv |-> Written(frame), outcome |-> "saved"]}
    \cup {[csv |-> f, outcome |-> "write_failed"] : f \in FailedWrite(frame, file)}

\* lines 160-170: the file exists; read_csv raises on a file without a
\* header (EmptyDataError) and may raise on any file (I/O error)
MergeCsv(frame, file) ==
    LET merged == Unwrap(drop_duplicates(frame \o file.rows))
    IN {[csv |-> file, outcome |-> "read_failed"]}
       \cup (IF file.header
             THEN {[csv |-> Written(merged), outcome |-> "saved"]}
                  \cup {[csv |-> f, outcome |-> "write_failed"] :
                           f \in FailedWrite(merged, file)}
             ELSE {})

\* save_data_into_csv(df, csv_file_path): the outcomes it can have; every
\* exception of the reads and writes is caught and printed (lines 157, 169)
save_data_into_csv(frame, file) ==
    IF frame = <<>> THEN {[csv |-> file, outcome |-> "empty"]}
    ELSE IF ~file.exists THEN CreateCsv(frame, file)
    ELSE MergeCsv(frame, file)

---------------------------------------------------------------------------
(* save_data_into_csv called again and again.                              *)

SaveReadings ==
    Readings({DescA}, {NaN, Num(1)}, {Num(2)}, {Str("der"), PyNone})

SaveTimes == [minute : 1..2, second : {0}]

SaveFrames ==
    {clean_data_and_add_utilisation(raw) : raw \in Snapshots(SaveReadings, MaxRows, SaveTimes)}

InitSave ==
    /\ pc = "save"
    /\ df = <<>>
    /\ lines = <<>>
    /\ csv = NoFile
    /\ num_constraints_to_plot = 1
    /\ max_plot_history = 1
    /\ waited = 0
    /\ calls = 0
    /\ ev = [op |-> "init"]
    /\ track = NoTrack
    /\ api_key = SomeKey

\* line 261: save_data_into_csv(df, MONITORING_CSV_PATH)
CallSave(frame) ==
    \E out \in save_data_into_csv(frame, csv) :
        /\ csv' = out.csv
        /\ ev' = [op |-> "save", outcome |-> out.outcome]
        /\ track' = [track EXCEPT !.failures =
                        @ + (IF out.outcome \in {"write_failed", "read_failed"} THEN 1 ELSE 0)]

SaveCall ==
    /\ pc = "save"
    /\ calls < MaxCalls
    /\ calls' = calls + 1
    /\ \E frame \in SaveFrames : df' = frame /\ CallSave(frame)
    /\ UNCHANGED <<api_key, pc, lines, num_constraints_to_plot, max_plot_history, waited>>

NextSave == SaveCall

SpecSave == InitSave /\ [][NextSave]_vars

---------------------------------------------------------------------------
(* Claims about the file, checked under SpecSave.                          *)

\* C9: after any sequence of save_data_into_csv calls that all succeeded
\* (the creating call included), no two rows of the file are equal on
\* every field.
C9_NoDuplicateRows ==
    (ev.op = "save" /\ track.failures = 0)
    => \A i, j \in 1..Len(csv.rows) : i # j => csv.rows[i] # csv.rows[j]

\* C10: a call without a read or write error leaves every record it was
\* given in the file, and no call (successful, failed, or with an empty
\* snapshot) removes a row that was in the file before it.
C10_AppendOnly ==
    [][(ev'.op = "save" /\ calls' = calls + 1)
       => /\ ev'.outcome = "saved" =>
                \A i \in 1..Len(df') : CsvRoundTrip(df'[i]) \in {csv'.rows[k] : k \in 1..Len(csv'.rows)}
          /\ \A i \in 1..Len(csv.rows) :
                csv.rows[i] \in {csv'.rows[k] : k \in 1..Len(csv'.rows)}]_vars

---------------------------------------------------------------------------
(* main, lines 228-273, and hit_api_and_return_data, lines 186-226.        *)

MainReadings ==
    Readings({DescA}, {Num(2)}, {Num(2)}, {Str("der")})
    \cup Readings({DescB}, {NaN}, {Num(2)}, {PyNone})

MainTimes == [minute : 1..2, second : {0, 30}]

MainFrames == Snapshots(MainReadings, MaxRows, MainTimes) \ {<<>>}

\* a slip: the check of lines 210-211 left out
hit_api_and_return_data_no_key_check(key, frames) ==
    {[raised |-> TRUE, kind |-> k, frame |-> <<>>] : k \in {"transport_error", "not_json"}}
    \cup {[raised |-> FALSE, kind |-> k, frame |-> <<>>] : k \in {"no_results", "empty_results"}}
    \cup {[raised |-> FALSE, kind |-> "results", frame |-> f] : f \in frames}

\* hit_api_and_return_data(api_base_url, api_key, der_name): what a call
\* can do. Without a key it raises (line 211); requests.get and
\* resp.json() raise on a transport error or a body that is not JSON
\* (lines 217-218, outside the try); a body without 'results' gives the
\* empty frame of line 224 and an empty 'results' an empty frame.
hit_api_and_return_data(key, frames) ==
    IF ~key.set \/ key.value = ""
    THEN {[raised |-> TRUE, kind |-> "no_api_key", frame |-> <<>>]}
    ELSE {[raised |-> TRUE, kind |-> k, frame |-> <<>>] : k \in {"transport_error", "not_json"}}
         \cup {[raised |-> FALSE, kind |-> k, frame |-> <<>>] : k \in {"no_results", "empty_results"}}
         \cup {[raised |-> FALSE, kind |-> "results", frame |-> f] : f \in frames}

InitMain ==
    /\ pc = "start"
    /\ api_key \in {NoKey, EmptyKey, SomeKey}
    /\ df = <<>>
    /\ lines = <<>>
    /\ csv = NoFile
    /\ num_constraints_to_plot \in 1..MaxK
    /\ max_plot_history \in 1..MaxH
    /\ waited = 0
    /\ calls = 0
    /\ ev = [op |-> "init"]
    /\ track = NoTrack

\* line 245: os.makedirs(OUTPUT_DIR, exist_ok=True), before the try
Start ==
    /\ pc = "start"
    /\ pc' = "setup"
    /\ ev' = [op |-> "start"]
    /\ UNCHANGED <<api_key, df, lines, csv, num_constraints_to_plot, max_plot_history,
                   waited, calls, track>>

\* lines 248-251: the figure and lines = []
Setup ==
    /\ pc = "setup"
    /\ lines' = <<>>
    /\ pc' = "fetch"
    /\ ev' = [op |-> "setup"]
    /\ UNCHANGED <<api_key, df, csv, num_constraints_to_plot, max_plot_history,
                   waited, calls, track>>

\* line 254: df = hit_api_and_return_data(...); what it raises is an
\* Exception, which main does not catch
Fetch ==
    /\ pc = "fetch"
    /\ calls < MaxCalls
    /\ calls' = calls + 1
    /\ \E r \in hit_api_and_return_data(api_key, MainFrames) :
          /\ df' = r.frame
          /\ pc' = IF r.raised THEN "crashed" ELSE "check"
          /\ ev' = [op |-> "fetch", kind |-> r.kind]
    /\ UNCHANGED <<api_key, lines, csv, num_constraints_to_plot, max_plot_history,
                   waited, track>>

\* line 256: if not df.empty
AfterCheck(frame) == IF frame = <<>> THEN "retry_sleep" ELSE "clean"

Check ==
    /\ pc = "check"
    /\ pc' = AfterCheck(df)
    /\ ev' = [op |-> "check"]
    /\ UNCHANGED <<api_key, df, lines, csv, num_constraints_to_plot, max_plot_history,
                   waited, calls, track>>

\* line 258
Clean ==
    /\ pc = "clean"
    /\ df' = clean_data_and_add_utilisation(df)
    /\ pc' = "save"
    /\ ev' = [op |-> "clean"]
    /\ UNCHANGED <<api_key, lines, csv, num_constraints_to_plot, max_plot_history,
                   waited, calls, track>>

\* lines 260-263
Save ==
    /\ pc = "save"
    /\ CallSave(df)
    /\ pc' = "graph"
    /\ UNCHANGED <<api_key, df, lines, num_constraints_to_plot, max_plot_history,
                   waited, calls>>

\* line 269
Graph ==
    /\ pc = "graph"
    /\ CallUpdateGraph(df, "sleep")
    /\ UNCHANGED <<api_key, df, csv, num_constraints_to_plot, max_plot_history,
                   waited, calls>>

\* a slip: the continue of line 267 left out
AfterRetrySleep_no_continue == "graph"

\* line 267: continue
AfterRetrySleep == "fetch"

\* lines 265-267: print, time.sleep(30), continue
RetrySleep ==
    /\ pc = "retry_sleep"
    /\ waited' = RetryInterval
    /\ pc' = AfterRetrySleep
    /\ ev' = [op |-> "retry_sleep"]
    /\ UNCHANGED <<api_key, df, lines, csv, num_constraints_to_plot, max_plot_history,
                   calls, track>>

\* line 271: time.sleep(30)
Sleep ==
    /\ pc = "sleep"
    /\ waited' = SleepInterval
    /\ pc' = "fetch"
    /\ ev' = [op |-> "sleep"]
    /\ UNCHANGED <<api_key, df, lines, csv, num_constraints_to_plot, max_plot_history,
                   calls, track>>

\* a slip: the try put around the two sleeps only
InsideTry_sleeps_only(at) == at \in {"sleep", "retry_sleep"}

\* lines 246-271: the positions of main inside the try; line 245 is not
InsideTry(at) == at # "start"

\* lines 272-273: a KeyboardInterrupt raised anywhere inside the try is
\* caught, the message is printed and main returns. save_data_into_csv
\* catches Exception only, so an interrupt during it leaves the file as
\* the interrupted read or write left it. Line 245 is outside the try.
Interrupt ==
    /\ pc \in {"start", "setup", "fetch", "check", "clean", "save", "graph",
               "sleep", "retry_sleep"}
    /\ pc' = IF InsideTry(pc) THEN "done" ELSE "crashed"
    /\ IF pc = "save"
       THEN \E out \in save_data_into_csv(df, csv) : csv' = out.csv
       ELSE csv' = csv
    /\ ev' = [op |-> "interrupt", at |-> pc,
              printed |-> IF InsideTry(pc) THEN <<"You have stopped now">> ELSE <<>>]
    /\ UNCHANGED <<api_key, df, lines, num_constraints_to_plot, max_plot_history,
                   waited, calls, track>>

NextMain ==
    \/ Start
    \/ Setup
    \/ Fetch
    \/ Check
    \/ Clean
    \/ Save
    \/ Graph
    \/ RetrySleep
    \/ Sleep
    \/ Interrupt

SpecMain == InitMain /\ [][NextMain]_vars

---------------------------------------------------------------------------
(* Claims about the poll loop, checked under SpecMain.                     *)

\* C8: in a cycle whose fetch returned an empty frame, neither
\* save_data_into_csv nor update_graph runs, the file and the list of
\* lines are left as they were, and the loop sleeps the standard interval
\* and goes back to the fetch (unless the user interrupts it).
C8_EmptySnapshotSkip ==
    [][/\ (pc = "fetch" /\ pc' = "check" /\ df' = <<>>)
            => (lines' = lines /\ csv' = csv)
       /\ (pc = "check" /\ df = <<>> /\ pc' # "done")
            => (pc' = "retry_sleep" /\ lines' = lines /\ csv' = csv)
       /\ (pc = "retry_sleep" /\ pc' # "done")
            => (pc' = "fetch" /\ waited' = SleepInterval /\ df' = <<>>
                /\ lines' = lines /\ csv' = csv)]_vars

\* an empty fetch was skipped and slept over after a full cycle had drawn
\* lines and written the file
C8_Witness ==
    /\ pc = "fetch"
    /\ ev.op = "retry_sleep"
    /\ df = <<>>
    /\ waited = SleepInterval
    /\ lines # <<>>
    /\ csv.exists /\ csv.rows # <<>>

FetchFailures == {"transport_error", "not_json", "no_results", "empty_results"}

\* C11: a fetch that fails in any way (transport error, a body that is not
\* JSON, a body without 'results', an empty 'results') does not end the
\* loop: it yields an empty frame, the rest of the cycle is skipped, the
\* loop sleeps the standard interval and fetches again.
C11_FetchFailureRecovered ==
    [][/\ (ev'.op = "fetch" /\ ev'.kind \in FetchFailures)
            => (pc' = "check" /\ df' = <<>> /\ lines' = lines /\ csv' = csv)
       /\ (ev.op = "fetch" /\ ev.kind \in FetchFailures /\ ev'.op = "check")
            => pc' = "retry_sleep"
       /\ ev'.op = "retry_sleep"
            => (pc' = "fetch" /\ waited' = SleepInterval)]_vars

SaveFailures == {"write_failed", "read_failed"}

\* C12: when save_data_into_csv fails in a cycle with a non-empty frame
\* (the write fails, or the existing file cannot be read), nothing is
\* raised into main, the rows of the file are left as they were,
\* update_graph is then called with that cycle's frame and the loop goes
\* on to the sleep before the next cycle.
C12_BestEffortPersistence ==
    [][/\ (ev'.op = "save" /\ ev'.outcome \in SaveFailures)
            => (pc' = "graph" /\ df' = df /\ df # <<>> /\ csv'.rows = csv.rows)
       /\ (ev.op = "save" /\ ev.outcome \in SaveFailures /\ ev'.op = "update_graph")
            => (ev'.stamps = {df[1].timestamp} /\ ~ev'.raised /\ pc' = "sleep")]_vars

KeyMissing == ~api_key.set \/ api_key.value = ""

\* C13: with the API key absent or empty the fatal error is raised before
\* the poll loop begins: no loop iteration starts, and there is no HTTP
\* request, no write to the file and no change of the list of lines.
C13_FatalBeforeLoop ==
    KeyMissing =>
        /\ pc \in {"start", "setup", "crashed", "done"}
        /\ ev.op # "fetch"
        /\ lines = <<>> /\ csv = NoFile

\* C13, amended: with the API key absent or empty the first call of
\* hit_api_and_return_data, in the first iteration of the loop, raises
\* before any HTTP request and main ends there; no later stage of the
\* iteration runs, nothing is written and the list of lines stays empty.
C13_FatalAtFirstFetch ==
    KeyMissing =>
        /\ pc \in {"start", "setup", "fetch", "crashed", "done"}
        /\ ev.op = "fetch" => (ev.kind = "no_api_key" /\ pc = "crashed" /\ calls = 1)
        /\ lines = <<>> /\ csv = NoFile /\ df = <<>>

\* the first fetch raised for want of a key
C13_Witness ==
    /\ KeyMissing
    /\ api_key = EmptyKey
    /\ pc = "crashed"
    /\ ev.op = "fetch"

LoopStages == {"fetch", "check", "clean", "save", "graph", "sleep", "retry_sleep"}

\* C14: a user interrupt at any point of the poll loop (fetch, derive,
\* persist, series update, either sleep) is caught by main, which prints
\* the termination message and returns; after it no stage runs any more.
C14_GracefulInterrupt ==
    [][/\ (ev'.op = "interrupt" /\ pc \in LoopStages)
            => (pc' = "done" /\ ev'.printed = <<"You have stopped now">>
                /\ lines' = lines /\ df' = df)
       /\ pc # "done"]_vars

\* the loop was interrupted during the save of a later cycle
C14_Witness ==
    /\ pc = "done"
    /\ ev.op = "interrupt" /\ ev.at = "save"
    /\ lines # <<>>
    /\ csv.exists

---------------------------------------------------------------------------
(* Claims about a later call of update_graph, checked under SpecGraph.     *)

Labels(ls) == {ls[j].label : j \in 1..Len(ls)}

KeysOf(constraints) == {Label(constraints[i]) : i \in 1..Len(constraints)}

\* a call of update_graph after the first draw that did not skip
Redrawn == ev'.op = "update_graph" /\ calls' = calls + 1 /\ ev'.branch = "redraw"

\* C15: in a call after the first draw that does not skip (and returns),
\* every line whose key is not among the ranked rows is still in the list
\* afterwards with exactly the points it had: not removed, not replaced
\* by another key's line, not appended to.
C15_DropOutRetention ==
    [][(Redrawn /\ ~ev'.raised)
       => \A j \in 2..Len(lines) :
             lines[j].label \notin KeysOf(ev'.constraints)
             => \E k \in 2..Len(lines') : lines'[k] = lines[j]]_vars

\* C16: in a call after the first draw that does not skip, every key of
\* the ranked rows that has no line yet gets a fresh line holding only
\* this cycle's point, and the call does not raise, also when the cycle
\* has more distinct keys than the list has lines.
C16_NewKeyGetsFreshLine ==
    [][Redrawn
       => /\ ~ev'.raised
          /\ \A i \in 2..Len(ev'.constraints) :
                Label(ev'.constraints[i]) \notin Labels(Tail(lines))
                => \E k \in 2..Len(lines') :
                      /\ lines'[k].label = Label(ev'.constraints[i])
                      /\ lines'[k].x = <<ev'.ref[1].timestamp>>]_vars

\* C17: after any sequence of update_graph calls the list holds at most
\* one line per key (description cut to 50 symbols).
C17_OneLinePerKey ==
    (Called /\ ~ev.raised)
    => \A j, k \in 1..Len(lines) : j # k => lines[j].label # lines[k].label

\* C20: after the first draw every call that returns leaves the number of
\* lines as the first draw made it, position 0 holds the reference line,
\* and a call replaces only the positions below the number of distinct
\* keys of its ranked rows: every higher position keeps its line.
C20_FixedSeriesCount ==
    [][(ev'.op = "update_graph" /\ calls' = calls + 1 /\ ~ev'.raised /\ lines # <<>>)
       => /\ Len(lines') = Len(lines)
          /\ lines'[1].label = Label(AllowableDesc)
          /\ \A j \in 1..Len(lines) :
                j > Cardinality(KeysOf(ev'.constraints)) => lines'[j] = lines[j]]_vars

\* C19: update_graph called with an empty snapshot returns (an empty
\* selection) without raising and leaves the list of lines passed in as it
\* was.
C19_EmptyInputReturns ==
    [][(ev'.op = "update_graph" /\ calls' = calls + 1 /\ ev'.ref = <<>>)
       => (~ev'.raised /\ pc' # "crashed" /\ lines' = lines)]_vars

---------------------------------------------------------------------------
(* clean_data_and_add_utilisation followed by the first update_graph, on   *)
(* readings whose trim_amps may be zero or missing.                        *)

DeriveReadings ==
    Readings({DescA, DescB}, {NaN, Num(0), Num(1), Num(-1)},
             {NaN, Num(0), Num(2)}, {Str("der")})

DeriveFrames == Snapshots(DeriveReadings, MaxRows, {[minute |-> 1, second |-> 0]}) \ {<<>>}

InitDerive ==
    /\ pc = "clean"
    /\ df \in DeriveFrames
    /\ lines = <<>>
    /\ csv = NoFile
    /\ num_constraints_to_plot \in 1..MaxK
    /\ max_plot_history \in 1..MaxH
    /\ waited = 0
    /\ calls = 0
    /\ ev = [op |-> "init"]
    /\ track = NoTrack
    /\ api_key = SomeKey

\* line 258: df = clean_data_and_add_utilisation(df)
Derive ==
    /\ pc = "clean"
    /\ df' = clean_data_and_add_utilisation(df)
    /\ pc' = "once"
    /\ ev' = [op |-> "clean"]
    /\ UNCHANGED <<api_key, lines, csv, num_constraints_to_plot, max_plot_history,
                   waited, calls, track>>

NextDerive ==
    \/ Derive
    \/ FirstCall

SpecDerive == InitDerive /\ [][NextDerive]_vars

NoCapacity(r) == r.trim_amps \in {NaN, Num(0)}

\* C18: a reading whose trim_amps is zero or missing gets a utilisation
\* without an exception and ranks below every defined utilisation: when the
\* snapshot holds at least K readings with a finite utilisation, no reading
\* with zero or missing trim_amps is among the top-K rows.
C18_NoCapacityNeverRanked ==
    /\ pc # "crashed"
    /\ pc = "drawn" =>
          (Cardinality({i \in 1..Len(df) : df[i].utilisation.cls = "fin"})
                >= num_constraints_to_plot
           => \A j \in 2..Len(ev.rows) :
                 ~\E i \in 1..Len(df) : NoCapacity(df[i]) /\ UseCols(df)[i] = ev.rows[j])

====
